---- MODULE Spec2Model ----
(***************************************************************************)
(* Filename normalization engine of asset-codegen-toolkit:                 *)
(*   CleanGenerator    (src/src/generators/CleanGenerator.js)              *)
(*   OrganizeGenerator (src/unnamed/part_000)                              *)
(* Strings are sequences of one-character strings.                         *)
(***************************************************************************)
EXTENDS Integers, Sequences, FiniteSets, TLC

(***************************************************************************)
(* Bounds of the model                                                     *)
(***************************************************************************)
MaxSegs == 4
MaxDepth == 1
MaxFiles == 3

VARIABLES
  \* inputs and results of the pure naming functions
  inStem, inBase, inParts, inSep, res1, res2, phase,
  \* the configuration object and the file system
  config, files, unreadable,
  \* a pass (CleanGenerator.generate or OrganizeGenerator.generate)
  passKind, pc, enabledDirectories, allFolderNames, units, result, errors,
  \* observation: fs.rename calls issued, single-file calls made, initial files
  renameCalls, handled, failed, files0,
  \* the generate command (AssetGenerator): options, configuration, faults
  requestedSteps, featureFlags, dryRun, validConfig, failingStep,
  \* AssetGenerator.generate: position, locals and returned value
  gpc, enabledSteps, stepAt, running, completedSteps, generatedFiles, outcome,
  \* observation: steps whose body ran, formatting invoked, step events
  executed, formatted, log,
  \* writing an output file (writeTypeFile, generateAssetComponent): the
  \* overwrite mode, the output file and its .backup, faults, position
  overwriteMode, outputFile, backupFile, copyFails, writeFails, writer, wpc,
  shouldSkip

pureVars == <<inStem, inBase, inParts, inSep, res1, res2, phase>>
passVars == <<config, files, unreadable, passKind, pc, enabledDirectories,
              allFolderNames, units, result, errors, renameCalls, handled, failed,
              files0>>
genVars == <<requestedSteps, featureFlags, dryRun, validConfig, failingStep, gpc,
             enabledSteps, stepAt, running, completedSteps, generatedFiles, outcome,
             executed, formatted, log>>
writeVars == <<overwriteMode, outputFile, backupFile, copyFails, writeFails, writer,
               wpc, shouldSkip>>
vars == <<pureVars, passVars, genVars, writeVars>>

(***************************************************************************)
(* Strings                                                                 *)
(***************************************************************************)
\* String.prototype.toLowerCase on one character
LowerChar(c) ==
  CASE c = "A" -> "a"
    [] c = "B" -> "b"
    [] c = "S" -> "s"
    [] c = "T" -> "t"
    [] OTHER -> c

toLowerCase(s) == [i \in 1..Len(s) |-> LowerChar(s[i])]

Drop(s, n) == SubSeq(s, n + 1, Len(s))
Take(s, n) == SubSeq(s, 1, n)

\* s.endsWith(t)
EndsWith(s, t) == Len(t) <= Len(s) /\ SubSeq(s, Len(s) - Len(t) + 1, Len(s)) = t

\* Array.prototype.join
RECURSIVE JoinWith(_, _)
JoinWith(parts, sep) ==
  IF Len(parts) = 0 THEN <<>>
  ELSE IF Len(parts) = 1 THEN parts[1]
  ELSE parts[1] \o sep \o JoinWith(Tail(parts), sep)

(***************************************************************************)
(* Regular expressions built by CleanGenerator: a pattern is a sequence of *)
(* atoms, an atom is a source character and whether a backslash precedes   *)
(* it.                                                                     *)
(***************************************************************************)
RegexMeta == {".", "*", "+", "?", "^", "$", "{", "}", "(", ")", "|", "[", "]", "\\"}

escapeNothing(string) ==
  [i \in 1..Len(string) |-> [ch |-> string[i], esc |-> FALSE]]

\* CleanGenerator.escapeRegex: every metacharacter gets a backslash
escapeRegex(string) ==
  [i \in 1..Len(string) |-> [ch |-> string[i], esc |-> string[i] \in RegexMeta]]

\* one atom of a pattern against one character, without the i flag
AtomMatches(atom, c) ==
  IF atom.ch = "." /\ ~atom.esc THEN TRUE ELSE atom.ch = c

\* the atoms of pat match s from position i on
MatchAt(pat, s, i) ==
  /\ i + Len(pat) - 1 <= Len(s)
  /\ \A k \in 1..Len(pat) : AtomMatches(pat[k], s[i + k - 1])

\* s.replace(/^pat/g, rep)
ReplaceStart(s, pat, rep) ==
  IF MatchAt(pat, s, 1) THEN rep \o Drop(s, Len(pat)) ELSE s

\* s.replace(/pat$/g, rep)
ReplaceEnd(s, pat, rep) ==
  IF Len(pat) <= Len(s) /\ MatchAt(pat, s, Len(s) - Len(pat) + 1)
  THEN Take(s, Len(s) - Len(pat)) \o rep
  ELSE s

\* s.replace(/pat/g, rep): leftmost matches, not overlapping
RECURSIVE ReplaceAllFrom(_, _, _, _)
ReplaceAllFrom(s, pat, rep, i) ==
  IF i > Len(s) THEN <<>>
  ELSE IF MatchAt(pat, s, i)
       THEN rep \o ReplaceAllFrom(s, pat, rep, i + Len(pat))
       ELSE <<s[i]>> \o ReplaceAllFrom(s, pat, rep, i + 1)

ReplaceAll(s, pat, rep) == ReplaceAllFrom(s, pat, rep, 1)

\* length of the run of characters matching atom that starts at position i
RECURSIVE RunLen(_, _, _)
RunLen(atom, s, i) ==
  IF i <= Len(s) /\ AtomMatches(atom, s[i]) THEN 1 + RunLen(atom, s, i + 1) ELSE 0

\* length of the match of /pat{min,}/ at position i (the quantifier binds to
\* the last atom of pat), 0 when there is none
QuantMatchLen(pat, s, i, min) ==
  LET n == Len(pat)
      run == RunLen(pat[n], s, i + n - 1)
  IN IF MatchAt(Take(pat, n - 1), s, i) /\ run >= min THEN n - 1 + run ELSE 0

\* s.replace(/pat{2,}/g, rep)
RECURSIVE CollapseFrom(_, _, _, _)
CollapseFrom(s, pat, rep, i) ==
  IF i > Len(s) THEN <<>>
  ELSE LET m == QuantMatchLen(pat, s, i, 2)
       IN IF m > 0 THEN rep \o CollapseFrom(s, pat, rep, i + m)
          ELSE <<s[i]>> \o CollapseFrom(s, pat, rep, i + 1)

\* s.replace(/^pat+|pat+$/g, '')
TrimFromKeepsEnds(s, pat, i) == s

RECURSIVE TrimFrom(_, _, _)
TrimFrom(s, pat, i) ==
  IF i > Len(s) THEN <<>>
  ELSE LET m == QuantMatchLen(pat, s, i, 1)
       IN IF m > 0 /\ (i = 1 \/ i + m - 1 = Len(s))
          THEN TrimFrom(s, pat, i + m)
          ELSE <<s[i]>> \o TrimFrom(s, pat, i + 1)

(***************************************************************************)
(* CleanGenerator.removeFolderNamesFromFilename                            *)
(***************************************************************************)
\* this.config.conventions?.separatorChar || '-'
separatorCharOf(cfgSep) == IF cfgSep = <<>> THEN <<"-">> ELSE cfgSep

\* Array.prototype.sort((a, b) => b.length - a.length): stable, longest first
RECURSIVE InsertByLength(_, _)
InsertByLength(sorted, x) ==
  IF sorted = <<>> THEN <<x>>
  ELSE IF Len(Head(sorted)) >= Len(x)
       THEN <<Head(sorted)>> \o InsertByLength(Tail(sorted), x)
       ELSE <<x>> \o sorted

RECURSIVE sortedFolderNames(_)
sortedFolderNames(folderNames) ==
  IF folderNames = <<>> THEN <<>>
  ELSE InsertByLength(sortedFolderNames(Take(folderNames, Len(folderNames) - 1)),
                      folderNames[Len(folderNames)])

\* one round of the do-while body for one folder name
RemoveRoundAnywhere(cleanedName, folderName, separatorChar) ==
  IF folderName = <<>> THEN cleanedName
  ELSE ReplaceAll(cleanedName, escapeRegex(folderName), <<>>)

RemoveRound(cleanedName, folderName, separatorChar) ==
  LET tok == escapeRegex(folderName)
      sp == escapeRegex(separatorChar)
      afterStart == ReplaceStart(cleanedName, tok \o sp, <<>>)
      afterEnd == ReplaceEnd(afterStart, sp \o tok, <<>>)
  IN ReplaceAll(afterEnd, sp \o tok \o sp, separatorChar)

\* do { ... } while (cleanedName !== previousName)
RECURSIVE RemoveUntilStable(_, _, _)
RemoveUntilStable(cleanedName, folderName, separatorChar) ==
  LET next == RemoveRound(cleanedName, folderName, separatorChar)
  IN IF next = cleanedName THEN cleanedName
     ELSE RemoveUntilStable(next, folderName, separatorChar)

\* for (const folderName of sortedFolderNames)
RECURSIVE RemoveEach(_, _, _)
RemoveEach(cleanedName, names, separatorChar) ==
  IF names = <<>> THEN cleanedName
  ELSE RemoveEach(RemoveUntilStable(cleanedName, Head(names), separatorChar),
                  Tail(names), separatorChar)

Unnamed == <<"u", "n", "n", "a", "m", "e", "d">>

removeFolderNamesFromFilename(filename, folderNames, cfgSep) ==
  LET separatorChar == separatorCharOf(cfgSep)
      sp == escapeRegex(separatorChar)
      stripped == RemoveEach(filename, sortedFolderNames(folderNames), separatorChar)
      collapsed == CollapseFrom(stripped, sp, separatorChar, 1)
      trimmed == TrimFrom(collapsed, sp, 1)
  IN IF trimmed = <<>> THEN Unnamed ELSE trimmed

(***************************************************************************)
(* OrganizeGenerator.addFolderStructureToFilename                          *)
(***************************************************************************)
addFolderStructureKeepEmptyBase(filename, pathParts, baseAssetName, separatorChar) ==
  JoinWith(<<baseAssetName>> \o pathParts \o <<filename>>, separatorChar)

addFolderStructureToFilename(filename, pathParts, baseAssetName, separatorChar) ==
  LET parts == (IF baseAssetName # <<>> THEN <<baseAssetName>> ELSE <<>>)
               \o pathParts \o <<filename>>
  IN JoinWith(parts, separatorChar)

(***************************************************************************)
(* path module: extname, basename, join, relative                          *)
(***************************************************************************)
RECURSIVE LastIndexOf(_, _, _)
LastIndexOf(s, c, i) ==
  IF i = 0 THEN 0 ELSE IF s[i] = c THEN i ELSE LastIndexOf(s, c, i - 1)

\* path.extname: from the last dot on, '' when there is no dot or the only
\* dot starts the name
extname(name) ==
  LET d == LastIndexOf(name, ".", Len(name))
  IN IF d <= 1 \/ name = <<".", ".">> THEN <<>> ELSE SubSeq(name, d, Len(name))

\* path.basename(name, ext)
basename(name, ext) ==
  IF ext # <<>> /\ EndsWith(name, ext)
  THEN (IF ext = name THEN <<>> ELSE Take(name, Len(name) - Len(ext)))
  ELSE name

\* a path is the sequence of its segments; this is its text
PathStr(p) == JoinWith(p, <<"/">>)

\* s.replace(t, rep) with a string pattern: the first occurrence only
RECURSIVE ReplaceFirstFrom(_, _, _, _)
ReplaceFirstFrom(s, t, rep, i) ==
  IF i + Len(t) - 1 > Len(s) THEN s
  ELSE IF SubSeq(s, i, i + Len(t) - 1) = t
       THEN Take(s, i - 1) \o rep \o Drop(s, i + Len(t) - 1)
       ELSE ReplaceFirstFrom(s, t, rep, i + 1)

\* s.replace(/^\/+/, '')
RECURSIVE StripLeadingSlashes(_)
StripLeadingSlashes(s) ==
  IF s # <<>> /\ Head(s) = "/" THEN StripLeadingSlashes(Tail(s)) ELSE s

\* the separator-delimited pieces of s (String.prototype.split)
RECURSIVE SplitFrom(_, _, _, _)
SplitFrom(s, sep, i, cur) ==
  IF i > Len(s) THEN <<cur>>
  ELSE IF SubSeq(s, i, i + Len(sep) - 1) = sep
       THEN <<cur>> \o SplitFrom(s, sep, i + Len(sep), <<>>)
       ELSE SplitFrom(s, sep, i + 1, Append(cur, s[i]))

Split(s, sep) == SplitFrom(s, sep, 1, <<>>)

\* .filter(part => part)
NonEmptyParts(parts) == SelectSeq(parts, LAMBDA x : x # <<>>)

IsPrefix(p, q) == Len(p) <= Len(q) /\ Take(q, Len(p)) = p

\* path.normalize, as segments: the "." segments go
normalize(p) == SelectSeq(p, LAMBDA x : x # <<".">>)

\* path.join(dirPath, name): joins and normalizes
join(dirPath, name) == normalize(Append(dirPath, name))

\* path.dirname(filePath)
dirname(filePath) == Take(filePath, Len(filePath) - 1)

RECURSIVE relativeFrom(_, _)
relativeFrom(from, to) ==
  IF from # <<>> /\ to # <<>> /\ Head(from) = Head(to)
  THEN relativeFrom(Tail(from), Tail(to))
  ELSE [i \in 1..Len(from) |-> <<".", ".">>] \o to

\* path.relative(from, to), as segments: both paths are resolved first
relative(from, to) == relativeFrom(normalize(from), normalize(to))

(***************************************************************************)
(* The file system.  A file is [dir, name, id]; id is the place the file   *)
(* had when the pass began and stands for its contents.                    *)
(***************************************************************************)
nA == <<"a">>
nB == <<"b">>

\* the directories of the tree
Dirs == {<<nA>>, <<nA, nB>>, <<nB>>}

ChildDirs(dirPath) ==
  {d \in Dirs : Len(d) = Len(normalize(dirPath)) + 1 /\ IsPrefix(normalize(dirPath), d)}

\* fs.readdir(dirPath, {withFileTypes: true}) when it succeeds
readdir(dirPath) ==
  {[name |-> f.name, isDir |-> FALSE] : f \in {g \in files : g.dir = normalize(dirPath)}}
  \cup {[name |-> d[Len(d)], isDir |-> TRUE] : d \in ChildDirs(dirPath)}

FileAt(fs, dir, name) == {f \in fs : f.dir = dir /\ f.name = name}

\* fs.rename can succeed: the source exists and the target is not a directory
RenamePossible(fs, dir, oldName, newName) ==
  /\ FileAt(fs, dir, oldName) # {}
  /\ (dir \o <<newName>>) \notin Dirs

\* rename(2) puts the file under the new name, in place of any file there
Renamed(fs, dir, oldName, newName) ==
  ((fs \ FileAt(fs, dir, oldName)) \ FileAt(fs, dir, newName))
  \cup {[dir |-> dir, name |-> newName, id |-> f.id] : f \in FileAt(fs, dir, oldName)}

(***************************************************************************)
(* Single-file processing                                                  *)
(***************************************************************************)
\* CleanGenerator.isAssetFile / OrganizeGenerator.isAssetFile
isAssetFile(filename) ==
  Drop(toLowerCase(extname(filename)), 1) \in config.fileGeneration.supportedExtensions

\* cleanSingleFile: actualFolders
actualFolders(directory, assetDir) ==
  LET relativePath == StripLeadingSlashes(
                        ReplaceFirstFrom(PathStr(directory), PathStr(assetDir.path), <<>>, 1))
  IN IF relativePath # <<>> THEN NonEmptyParts(Split(relativePath, <<"/">>)) ELSE <<>>

\* organizeSingleFile: pathParts
organizePathParts(directory, assetDir) ==
  NonEmptyParts(relative(assetDir.path, directory))

\* the new stem computed for the file
NewStem(kind, directory, nameWithoutExt, assetDir) ==
  IF kind = "clean"
  THEN removeFolderNamesFromFilename(nameWithoutExt,
         <<assetDir.name>> \o actualFolders(directory, assetDir),
         config.conventions.separatorChar)
  ELSE addFolderStructureToFilename(nameWithoutExt,
         organizePathParts(directory, assetDir), assetDir.name,
         separatorCharOf(config.conventions.separatorChar))

\* if (cleanedName === nameWithoutExt) return null
NoChangeNever(newStem, nameWithoutExt) == FALSE

NoChange(newStem, nameWithoutExt) == newStem = nameWithoutExt

\* const newFilename = cleanedName + extension
NewFilenameLowerExt(newStem, extension) == newStem \o toLowerCase(extension)

NewFilename(newStem, extension) == newStem \o extension

(***************************************************************************)
(* The pass                                                                *)
(***************************************************************************)
Frame(dirPath) == [dirPath |-> dirPath, entries |-> readdir(dirPath)]

\* the directory whose loop is running is the one of the innermost call: the
\* recursive call is awaited
Outermost(stack) == stack[1]

Top(stack) == stack[Len(stack)]

\* the loop over a directory's entries ends when none is left, and the call
\* returns to the loop of the parent directory
RECURSIVE ReturnExhausted(_)
ReturnExhausted(stack) ==
  IF stack # <<>> /\ Top(stack).entries = {}
  THEN ReturnExhausted(Take(stack, Len(stack) - 1))
  ELSE stack

\* the stack once entry e of the top directory has been dealt with
WithoutEntry(stack, e) ==
  ReturnExhausted([stack EXCEPT ![Len(stack)].entries = @ \ {e}])

\* the unit's promise settles when the walk of the root has returned
Walked(u, stack) ==
  [u EXCEPT !.stack = stack, !.st = IF stack = <<>> THEN "settled" ELSE "walk"]

\* collectAllFolderNames: the names of the roots and of every directory
\* found below a readable root path
RECURSIVE collectFolderNamesRecursive(_)
collectFolderNamesRecursive(dirPath) ==
  IF normalize(dirPath) \in unreadable THEN {}
  ELSE UNION {{d[Len(d)]} \cup collectFolderNamesRecursive(d) : d \in ChildDirs(dirPath)}

collectAllFolderNames(assetDirectories) ==
  UNION {{assetDirectories[i].name} \cup collectFolderNamesRecursive(assetDirectories[i].path)
         : i \in DOMAIN assetDirectories}

\* generate(): filter the enabled roots, return [] when there is none;
\* the clean pass collects the folder names and starts every unit
\* (Promise.allSettled over the map), the organize pass runs them in turn
Generate ==
  /\ pc = "idle"
  /\ LET enabled == SelectSeq(config.assetDirectories, LAMBDA d : d.enabled)
     IN /\ enabledDirectories' = enabled
        /\ IF Len(enabled) = 0
           THEN /\ pc' = "done"
                /\ result' = <<>>
                /\ UNCHANGED <<allFolderNames, units>>
           ELSE /\ pc' = "processing"
                /\ allFolderNames' = IF passKind = "clean"
                                     THEN collectAllFolderNames(enabled) ELSE {}
                /\ units' = [i \in 1..Len(enabled) |->
                               [st |-> "start", stack |-> <<>>, processedFiles |-> <<>>]]
                /\ UNCHANGED result
  /\ UNCHANGED <<config, files, unreadable, passKind, errors, renameCalls, handled,
                 failed, files0>>
  /\ UNCHANGED pureVars
  /\ UNCHANGED <<genVars, writeVars>>

\* a unit may take a step: always in the clean pass, in the organize pass
\* only when the units before it have returned (for ... await)
MayRun(i) ==
  /\ pc = "processing"
  /\ i \in DOMAIN units
  /\ passKind = "organize" => \A j \in 1..(i - 1) : units[j].st = "settled"

\* the units after the readdir of root i's path has failed: the error is
\* caught in processDirectoryRecursive and the unit returns its empty list
RootScanFailedAbortsAll(us, i) ==
  [j \in DOMAIN us |-> [us[j] EXCEPT !.st = "settled", !.stack = <<>>]]

RootScanFailedRetries(us, i) == us

RootScanFailed(us, i) == [us EXCEPT ![i].st = "settled"]

\* processDirectoryRecursive(assetDir.path, ...): the first readdir
UnitReadRoot(i) ==
  /\ MayRun(i)
  /\ units[i].st = "start"
  /\ LET root == enabledDirectories[i].path
     IN IF normalize(root) \in unreadable
        THEN units' = RootScanFailed(units, i)
        ELSE units' = [units EXCEPT ![i] = Walked(@, ReturnExhausted(<<Frame(root)>>))]
  /\ UNCHANGED <<config, files, unreadable, passKind, pc, enabledDirectories,
                 allFolderNames, result, errors, renameCalls, handled, failed, files0>>
  /\ UNCHANGED pureVars
  /\ UNCHANGED <<genVars, writeVars>>

\* the walk after the readdir of a subdirectory has failed: the error is
\* caught in the recursive call, which returns to the loop of the parent
AfterSubdirScanFailureAbandonsWalk(rest) == <<>>

AfterSubdirScanFailure(rest) == ReturnExhausted(rest)

\* for (const entry of entries), entry is a directory: recurse, a failing
\* readdir is caught inside the recursive call
UnitEnterDir(i) ==
  /\ MayRun(i)
  /\ units[i].st = "walk"
  /\ \E e \in Top(units[i].stack).entries :
       /\ e.isDir
       /\ LET fullPath == join(Top(units[i].stack).dirPath, e.name)
              rest == [units[i].stack EXCEPT ![Len(units[i].stack)].entries = @ \ {e}]
          IN units' = [units EXCEPT ![i] = Walked(@,
                         IF fullPath \in unreadable THEN AfterSubdirScanFailure(rest)
                         ELSE ReturnExhausted(Append(rest, Frame(fullPath))))]
  /\ UNCHANGED <<config, files, unreadable, passKind, pc, enabledDirectories,
                 allFolderNames, result, errors, renameCalls, handled, failed, files0>>
  /\ UNCHANGED pureVars
  /\ UNCHANGED <<genVars, writeVars>>

\* for (const entry of entries), entry is a file that is not an asset
UnitSkipFile(i) ==
  /\ MayRun(i)
  /\ units[i].st = "walk"
  /\ \E e \in Top(units[i].stack).entries :
       /\ ~e.isDir
       /\ ~isAssetFile(e.name)
       /\ units' = [units EXCEPT ![i] = Walked(@, WithoutEntry(units[i].stack, e))]
  /\ UNCHANGED <<config, files, unreadable, passKind, pc, enabledDirectories,
                 allFolderNames, result, errors, renameCalls, handled, failed, files0>>
  /\ UNCHANGED pureVars
  /\ UNCHANGED <<genVars, writeVars>>

\* the unit after fs.rename has thrown: the error is caught in the single-file
\* call, which returns null, and the loop goes on with the entries left
AfterRenameFailureEndsUnit(u, rest) == [u EXCEPT !.st = "settled", !.stack = <<>>]

AfterRenameFailure(u, rest) == Walked(u, rest)

\* cleanSingleFile / organizeSingleFile on an asset entry, and the push of
\* its result
UnitSingleFile(i) ==
  /\ MayRun(i)
  /\ units[i].st = "walk"
  /\ \E e \in Top(units[i].stack).entries :
       /\ ~e.isDir
       /\ isAssetFile(e.name)
       /\ LET assetDir == enabledDirectories[i]
              filePath == join(Top(units[i].stack).dirPath, e.name)
              directory == dirname(filePath)
              originalFilename == e.name
              extension == extname(originalFilename)
              nameWithoutExt == basename(originalFilename, extension)
              newStem == NewStem(passKind, directory, nameWithoutExt, assetDir)
              newFilename == NewFilename(newStem, extension)
              rest == WithoutEntry(units[i].stack, e)
              record == [assetDir |-> assetDir.name, directory |-> directory,
                         originalName |-> originalFilename, newName |-> newFilename,
                         oldPath |-> directory \o <<originalFilename>>,
                         newPath |-> directory \o <<newFilename>>]
          IN /\ handled' = handled \cup {[unit |-> i, dir |-> directory,
                                           name |-> originalFilename,
                                           oldStem |-> nameWithoutExt,
                                           newStem |-> newStem]}
             /\ IF NoChange(newStem, nameWithoutExt)
                THEN /\ units' = [units EXCEPT ![i] = Walked(@, rest)]
                     /\ UNCHANGED <<files, renameCalls, failed>>
                ELSE /\ renameCalls' = renameCalls + 1
                     /\ \E ok \in BOOLEAN :
                          IF ok /\ RenamePossible(files, directory, originalFilename, newFilename)
                          THEN /\ files' = Renamed(files, directory, originalFilename, newFilename)
                               /\ units' = [units EXCEPT ![i] =
                                    Walked([@ EXCEPT !.processedFiles = Append(@, record)], rest)]
                               /\ UNCHANGED failed
                          ELSE /\ units' = [units EXCEPT ![i] = AfterRenameFailure(@, rest)]
                               /\ failed' = failed \cup {[unit |-> i, dir |-> directory,
                                                          name |-> originalFilename]}
                               /\ UNCHANGED files
  /\ UNCHANGED <<config, unreadable, passKind, pc, enabledDirectories,
                 allFolderNames, result, errors, files0>>
  /\ UNCHANGED pureVars
  /\ UNCHANGED <<genVars, writeVars>>

RECURSIVE ConcatProcessed(_, _)
ConcatProcessed(us, n) ==
  IF n = 0 THEN <<>> ELSE ConcatProcessed(us, n - 1) \o us[n].processedFiles

\* results.forEach: fulfilled units contribute their files, rejected ones an
\* entry of errors; every unit catches its own errors, so none is rejected
Aggregate ==
  /\ pc = "processing"
  /\ \A i \in DOMAIN units : units[i].st = "settled"
  /\ result' = ConcatProcessed(units, Len(units))
  /\ errors' = <<>>
  /\ pc' = "done"
  /\ UNCHANGED <<config, files, unreadable, passKind, enabledDirectories,
                 allFolderNames, units, renameCalls, handled, failed, files0>>
  /\ UNCHANGED pureVars
  /\ UNCHANGED <<genVars, writeVars>>

(***************************************************************************)
(* AssetGenerator (src/unnamed/part_003): the generate command.  A         *)
(* character outside ASCII is written as its code point.                   *)
(***************************************************************************)
cleanupDuplicates == <<"c", "l", "e", "a", "n", "u", "p", "D", "u", "p", "l", "i", "c", "a", "t", "e", "s">>
organizeFilenames == <<"o", "r", "g", "a", "n", "i", "z", "e", "F", "i", "l", "e", "n", "a", "m", "e", "s">>
generateTypes == <<"g", "e", "n", "e", "r", "a", "t", "e", "T", "y", "p", "e", "s">>
generateComponent == <<"g", "e", "n", "e", "r", "a", "t", "e", "C", "o", "m", "p", "o", "n", "e", "n", "t">>

ALL_STEPS ==
  << [name |-> <<"U+C2A4", "U+B9C8", "U+D2B8", " ", "U+D3F4", "U+B354", "U+BA85", " ", "U+C81C", "U+AC70">>,
      flagKey |-> cleanupDuplicates, required |-> FALSE],
     [name |-> <<"U+C0C8", " ", "U+D3F4", "U+B354", " ", "U+AD6C", "U+C870", " ", "U+B124", "U+C774", "U+BC0D">>,
      flagKey |-> organizeFilenames, required |-> FALSE],
     [name |-> <<"A", "s", "s", "e", "t", " ", "U+D0C0", "U+C785", " ", "U+C0DD", "U+C131">>,
      flagKey |-> generateTypes, required |-> TRUE],
     [name |-> <<"A", "s", "s", "e", "t", " ", "U+CEF4", "U+D3EC", "U+B10C", "U+D2B8", " ", "U+C0DD", "U+C131">>,
      flagKey |-> generateComponent, required |-> FALSE] >>

\* String.prototype.includes
includes(s, t) == \E i \in 0..(Len(s) - Len(t)) : SubSeq(s, i + 1, i + Len(t)) = t

\* requested.replace(/-/g, '')
withoutHyphens(requested) == SelectSeq(requested, LAMBDA c : c # "-")

\* the predicate of requestedSteps.some(...)
stepRequested(step, requested) ==
  \/ includes(step.flagKey, withoutHyphens(requested))
  \/ includes(toLowerCase(step.name), toLowerCase(requested))

\* a feature flag is [kind, value]: an object with enabled, or undefined
flagEnabled(flag) ==
  IF flag.kind = "object" THEN flag.value
  ELSE IF flag.kind = "boolean" THEN flag.value
  ELSE FALSE

Reversed(q) == [i \in 1..Len(q) |-> q[Len(q) + 1 - i]]

\* getEnabledSteps: ALL_STEPS filtered by the requested words when there are
\* some, by required and the feature flags otherwise
getEnabledStepsLastFirst(requested, flags) ==
  Reversed(IF Len(requested) > 0
           THEN SelectSeq(ALL_STEPS, LAMBDA step :
                  \E k \in DOMAIN requested : stepRequested(step, requested[k]))
           ELSE SelectSeq(ALL_STEPS, LAMBDA step :
                  step.required \/ flagEnabled(flags[step.flagKey])))

getEnabledSteps(requested, flags) ==
  IF Len(requested) > 0
  THEN SelectSeq(ALL_STEPS, LAMBDA step :
         \E k \in DOMAIN requested : stepRequested(step, requested[k]))
  ELSE SelectSeq(ALL_STEPS, LAMBDA step :
         step.required \/ flagEnabled(flags[step.flagKey]))

\* the value of outcome before generate has returned
NoOutcome == [pending |-> TRUE]

\* where the loop over enabledSteps stands once step n has been dealt with
AfterStep(steps, n) == IF n >= Len(steps) THEN "format" ELSE "loop"

AfterStepFailureGoesOn(steps, n) == AfterStep(steps, n)

\* where generate stands once step n has thrown: the inner catch rethrows,
\* the outer catch returns
AfterStepFailure(steps, n) == "returned"

\* generate(): load and validate the configuration, decide the steps
GenerateStart ==
  /\ gpc = "idle"
  /\ IF ~validConfig
     THEN /\ gpc' = "returned"
          /\ outcome' = [success |-> FALSE, error |-> <<"validation">>]
          /\ UNCHANGED enabledSteps
     ELSE /\ enabledSteps' = getEnabledSteps(requestedSteps, featureFlags)
          /\ gpc' = AfterStep(enabledSteps', 0)
          /\ UNCHANGED outcome
  /\ UNCHANGED <<requestedSteps, featureFlags, dryRun, validConfig, failingStep, stepAt,
                 running, completedSteps, generatedFiles, executed, formatted, log>>
  /\ UNCHANGED <<pureVars, passVars, writeVars>>

stepIsExecutedAlways(dry) == TRUE

\* if (!this.dryRun): executeStep is called
stepIsExecuted(dry) == ~dry

\* for (const step of enabledSteps): the next step begins
StepStart ==
  /\ gpc = "loop"
  /\ ~running
  /\ running' = TRUE
  /\ log' = Append(log, [ev |-> "start", key |-> enabledSteps[stepAt].flagKey])
  /\ UNCHANGED <<requestedSteps, featureFlags, dryRun, validConfig, failingStep, gpc,
                 enabledSteps, stepAt, completedSteps, generatedFiles, outcome, executed,
                 formatted>>
  /\ UNCHANGED <<pureVars, passVars, writeVars>>

\* dry run: executeStep is not called, the step counts as completed
StepDryRun ==
  /\ gpc = "loop"
  /\ running
  /\ ~stepIsExecuted(dryRun)
  /\ completedSteps' = completedSteps + 1
  /\ log' = Append(log, [ev |-> "end", key |-> enabledSteps[stepAt].flagKey])
  /\ running' = FALSE
  /\ stepAt' = stepAt + 1
  /\ gpc' = AfterStep(enabledSteps, stepAt)
  /\ UNCHANGED <<requestedSteps, featureFlags, dryRun, validConfig, failingStep,
                 enabledSteps, generatedFiles, outcome, executed, formatted>>
  /\ UNCHANGED <<pureVars, passVars, writeVars>>

\* stepResult.generatedFiles: the clean, organize and component generators
\* return an array, which has no generatedFiles; TypesGenerator is not among
\* the sources, it may return files or none
StepFiles(key) == IF key = generateTypes THEN {0, 1} ELSE {0}

\* await this.executeStep(step, config) returns
StepExecute ==
  /\ gpc = "loop"
  /\ running
  /\ stepIsExecuted(dryRun)
  /\ enabledSteps[stepAt].flagKey # failingStep
  /\ \E n \in StepFiles(enabledSteps[stepAt].flagKey) : generatedFiles' = generatedFiles + n
  /\ executed' = executed \cup {enabledSteps[stepAt].flagKey}
  /\ completedSteps' = completedSteps + 1
  /\ log' = Append(log, [ev |-> "end", key |-> enabledSteps[stepAt].flagKey])
  /\ running' = FALSE
  /\ stepAt' = stepAt + 1
  /\ gpc' = AfterStep(enabledSteps, stepAt)
  /\ UNCHANGED <<requestedSteps, featureFlags, dryRun, validConfig, failingStep,
                 enabledSteps, outcome, formatted>>
  /\ UNCHANGED <<pureVars, passVars, writeVars>>

\* await this.executeStep(step, config) throws: the inner catch rethrows and
\* the outer catch returns the failure
StepThrows ==
  /\ gpc = "loop"
  /\ running
  /\ stepIsExecuted(dryRun)
  /\ enabledSteps[stepAt].flagKey = failingStep
  /\ executed' = executed \cup {enabledSteps[stepAt].flagKey}
  /\ log' = Append(log, [ev |-> "failed", key |-> enabledSteps[stepAt].flagKey])
  /\ running' = FALSE
  /\ outcome' = [success |-> FALSE, error |-> failingStep]
  /\ gpc' = AfterStepFailure(enabledSteps, stepAt)
  /\ UNCHANGED <<requestedSteps, featureFlags, dryRun, validConfig, failingStep,
                 enabledSteps, stepAt, completedSteps, generatedFiles, formatted>>
  /\ UNCHANGED <<pureVars, passVars, writeVars>>

\* after the loop: conditionalFormat when files were generated and this is
\* no dry run, then the success value is returned
FormatAndReturn ==
  /\ gpc = "format"
  /\ formatted' = (generatedFiles > 0 /\ ~dryRun)
  /\ outcome' = [success |-> TRUE, completedSteps |-> completedSteps,
                 totalSteps |-> Len(enabledSteps), generatedFiles |-> generatedFiles]
  /\ gpc' = "returned"
  /\ UNCHANGED <<requestedSteps, featureFlags, dryRun, validConfig, failingStep,
                 enabledSteps, stepAt, running, completedSteps, generatedFiles, executed,
                 log>>
  /\ UNCHANGED <<pureVars, passVars, writeVars>>

(***************************************************************************)
(* Writing an output file: TypesGenerator.writeTypeFile and                *)
(* ComponentsGenerator.generateAssetComponent with handleFileOverwrite.    *)
(* A file is "none" when absent, else the name of its content.             *)
(***************************************************************************)
\* handleFileOverwrite once fs.access has succeeded: the switch over
\* overwriteMode
AfterAccess(mode) ==
  IF mode = "skip" THEN "skipped"
  ELSE IF mode = "backup" THEN "copy"
  ELSE "write"

\* handleFileOverwrite: await fs.access(filepath); a rejection is caught and
\* false is returned
HandleFileOverwriteAccess ==
  /\ wpc = "access"
  /\ IF outputFile = "none"
     THEN /\ wpc' = "write"
          /\ shouldSkip' = FALSE
     ELSE /\ wpc' = AfterAccess(overwriteMode)
          /\ shouldSkip' = (overwriteMode = "skip")
  /\ UNCHANGED <<overwriteMode, outputFile, backupFile, copyFails, writeFails, writer>>
  /\ UNCHANGED <<pureVars, passVars, genVars>>

\* handleFileOverwrite, case 'backup': await fs.copyFile(filepath,
\* backupPath); a rejection is caught by the same catch and false is returned
HandleFileOverwriteCopy ==
  /\ wpc = "copy"
  /\ backupFile' = IF copyFails THEN backupFile ELSE outputFile
  /\ shouldSkip' = FALSE
  /\ wpc' = "write"
  /\ UNCHANGED <<overwriteMode, outputFile, copyFails, writeFails, writer>>
  /\ UNCHANGED <<pureVars, passVars, genVars>>

\* if (shouldSkip) return; else await fs.writeFile(filepath, ...)
WriteFile ==
  /\ wpc = "write"
  /\ ~shouldSkip
  /\ IF writeFails
     THEN /\ wpc' = "threw"
          /\ UNCHANGED outputFile
     ELSE /\ wpc' = "written"
          /\ outputFile' = "new"
  /\ UNCHANGED <<overwriteMode, backupFile, copyFails, writeFails, writer, shouldSkip>>
  /\ UNCHANGED <<pureVars, passVars, genVars>>

\* no output file is being written
WriteAtRest ==
  /\ overwriteMode = "overwrite"
  /\ outputFile = "none"
  /\ backupFile = "none"
  /\ copyFails = FALSE
  /\ writeFails = FALSE
  /\ writer = "none"
  /\ wpc = "off"
  /\ shouldSkip = FALSE

\* the generate command is not running
GenAtRest ==
  /\ requestedSteps = <<>>
  /\ featureFlags = <<>>
  /\ dryRun = FALSE
  /\ validConfig = TRUE
  /\ failingStep = <<>>
  /\ gpc = "off"
  /\ enabledSteps = <<>>
  /\ stepAt = 1
  /\ running = FALSE
  /\ completedSteps = 0
  /\ generatedFiles = 0
  /\ outcome = NoOutcome
  /\ executed = {}
  /\ formatted = FALSE
  /\ log = <<>>

(***************************************************************************)
(* Initial states of a pass                                                *)
(***************************************************************************)
\* file names found in the directories
FileNamePool ==
  { <<"a", "-", "x", ".", "s">>,
    <<"x", ".", "s">>,
    <<"b", "-", "x", ".", "S">>,
    <<"x", ".", "t">> }

\* name and path of the second root as written in the configuration; the
\* path may be written with a leading "./"
Root2Forms == {<<nB, <<nB>>>>, <<<<>>, <<nB>>>>, <<<<>>, <<<<".">>, nB>>>>}

\* the entry of fileGeneration.supportedExtensions, in lower or upper case
ExtensionChoices == {<<"s">>, <<"S">>}

Configs ==
  { [assetDirectories |->
       << [name |-> nA, path |-> <<nA>>, enabled |-> e1],
          [name |-> r2[1], path |-> r2[2], enabled |-> e2] >>,
     fileGeneration |-> [supportedExtensions |-> {x}],
     conventions |-> [separatorChar |-> <<>>]]
    : e1 \in BOOLEAN, e2 \in BOOLEAN, r2 \in Root2Forms, x \in ExtensionChoices }

\* directories whose readdir fails (missing or not readable)
UnreadableChoices == {{}, {<<nB>>}, {<<nA, nB>>}}

\* at most MaxFiles files; a directory that cannot be read holds at most the
\* file x.s
Layouts(bad) ==
  {l \in SUBSET (((Dirs \ bad) \X FileNamePool) \cup (bad \X {<<"x", ".", "s">>})) :
     Cardinality(l) <= MaxFiles}

FilesOf(l) == {[dir |-> x[1], name |-> x[2], id |-> x] : x \in l}

PureAtRest ==
  /\ inStem = <<>>
  /\ inBase = <<>>
  /\ inParts = <<>>
  /\ inSep = <<>>
  /\ res1 = <<>>
  /\ res2 = <<>>
  /\ phase = "off"

InitPass ==
  /\ PureAtRest
  /\ config \in Configs
  /\ unreadable \in UnreadableChoices
  /\ files \in {FilesOf(l) : l \in Layouts(unreadable)}
  /\ files0 = files
  /\ passKind \in {"clean", "organize"}
  /\ pc = "idle"
  /\ enabledDirectories = <<>>
  /\ allFolderNames = {}
  /\ units = <<>>
  /\ result = <<>>
  /\ errors = <<>>
  /\ renameCalls = 0
  /\ handled = {}
  /\ failed = {}
  /\ GenAtRest
  /\ WriteAtRest

NextPass ==
  \/ Generate
  \/ \E i \in DOMAIN units : UnitReadRoot(i)
  \/ \E i \in DOMAIN units : UnitEnterDir(i)
  \/ \E i \in DOMAIN units : UnitSkipFile(i)
  \/ \E i \in DOMAIN units : UnitSingleFile(i)
  \/ Aggregate

SpecPass == InitPass /\ [][NextPass]_vars

\* the event loop runs every continuation that is ready: a pass that can take
\* a step takes one
MaxFilesFair == 2

InitPassFair == InitPass /\ Cardinality(files) <= MaxFilesFair

\* unit i has an asset file to hand to the single-file call: the guard of
\* UnitSingleFile(i), whose body always yields a step
FileReady(i) ==
  /\ MayRun(i)
  /\ units[i].st = "walk"
  /\ \E e \in Top(units[i].stack).entries : ~e.isDir /\ isAssetFile(e.name)

\* weak fairness of UnitSingleFile(i), with its guard written out
FairSingleFile(i) == []<>(~FileReady(i)) \/ []<><<UnitSingleFile(i)>>_vars

SpecPassFair ==
  /\ InitPassFair
  /\ [][NextPass]_vars
  /\ WF_vars(Generate)
  /\ WF_vars(Aggregate)
  /\ \A i \in 1..2 : /\ WF_vars(UnitReadRoot(i))
                      /\ WF_vars(UnitEnterDir(i))
                      /\ WF_vars(UnitSkipFile(i))
                      /\ FairSingleFile(i)

(***************************************************************************)
(* Inputs of the naming functions                                          *)
(***************************************************************************)
\* conventions.separatorChar as configured; <<>> stands for "not set"
SepChoices == {<<>>, <<".">>}

\* text between separators
Segs == {<<>>, <<"a">>, <<"b">>, <<"A">>, <<"a", "b">>}

SeqsUpTo(S, n) == UNION {[1..k -> S] : k \in 0..n}

\* stems of asset files: never empty (path.extname leaves a leading dot in
\* the stem)
Stems(sep) == {JoinWith(segs, sep) : segs \in SeqsUpTo(Segs, MaxSegs)} \ {<<>>}

\* directory names; one of them contains the separator
FolderNameChoices(sep) ==
  (Segs \ {<<>>}) \cup {<<"a">> \o sep \o <<"a">>, <<"a">> \o sep \o <<"b">>}

\* the pass is not running while the naming functions are exercised
PassAtRest ==
  /\ config = [assetDirectories |-> <<>>,
               fileGeneration |-> [supportedExtensions |-> {}],
               conventions |-> [separatorChar |-> <<>>]]
  /\ files = {}
  /\ unreadable = {}
  /\ passKind = "clean"
  /\ pc = "off"
  /\ enabledDirectories = <<>>
  /\ allFolderNames = {}
  /\ units = <<>>
  /\ result = <<>>
  /\ errors = <<>>
  /\ renameCalls = 0
  /\ handled = {}
  /\ failed = {}
  /\ files0 = {}

InitPure ==
  /\ inSep \in SepChoices
  /\ inStem \in Stems(separatorCharOf(inSep))
  /\ inBase \in FolderNameChoices(separatorCharOf(inSep)) \cup {<<>>}
  /\ inParts \in SeqsUpTo(FolderNameChoices(separatorCharOf(inSep)), MaxDepth)
  /\ res1 = <<>>
  /\ res2 = <<>>
  /\ phase = "input"
  /\ PassAtRest
  /\ GenAtRest
  /\ WriteAtRest

\* foldersToRemove of cleanSingleFile
foldersToRemove == <<inBase>> \o inParts

CleanOnce ==
  /\ phase = "input"
  /\ res1' = removeFolderNamesFromFilename(inStem, foldersToRemove, inSep)
  /\ phase' = "once"
  /\ UNCHANGED <<inStem, inBase, inParts, inSep, res2>>
  /\ UNCHANGED passVars
  /\ UNCHANGED <<genVars, writeVars>>

CleanTwice ==
  /\ phase = "once"
  /\ res2' = removeFolderNamesFromFilename(res1, foldersToRemove, inSep)
  /\ phase' = "twice"
  /\ UNCHANGED <<inStem, inBase, inParts, inSep, res1>>
  /\ UNCHANGED passVars
  /\ UNCHANGED <<genVars, writeVars>>

OrganizeOnce ==
  /\ phase = "input"
  /\ res1' = addFolderStructureToFilename(inStem, inParts, inBase, separatorCharOf(inSep))
  /\ phase' = "once"
  /\ UNCHANGED <<inStem, inBase, inParts, inSep, res2>>
  /\ UNCHANGED passVars
  /\ UNCHANGED <<genVars, writeVars>>

OrganizeTwice ==
  /\ phase = "once"
  /\ res2' = addFolderStructureToFilename(res1, inParts, inBase, separatorCharOf(inSep))
  /\ phase' = "twice"
  /\ UNCHANGED <<inStem, inBase, inParts, inSep, res1>>
  /\ UNCHANGED passVars
  /\ UNCHANGED <<genVars, writeVars>>

NextClean == CleanOnce \/ CleanTwice
SpecClean == InitPure /\ [][NextClean]_vars

NextOrganize == OrganizeOnce \/ OrganizeTwice
SpecOrganize == InitPure /\ [][NextOrganize]_vars

\* the stem of a file after the clean step and then the organize step of
\* one run of the generate command
cleanThenOrganize(filename) ==
  addFolderStructureToFilename(
    removeFolderNamesFromFilename(filename, foldersToRemove, inSep),
    inParts, inBase, separatorCharOf(inSep))

PipelineOnce ==
  /\ phase = "input"
  /\ res1' = cleanThenOrganize(inStem)
  /\ phase' = "once"
  /\ UNCHANGED <<inStem, inBase, inParts, inSep, res2>>
  /\ UNCHANGED passVars
  /\ UNCHANGED <<genVars, writeVars>>

PipelineTwice ==
  /\ phase = "once"
  /\ res2' = cleanThenOrganize(res1)
  /\ phase' = "twice"
  /\ UNCHANGED <<inStem, inBase, inParts, inSep, res1>>
  /\ UNCHANGED passVars
  /\ UNCHANGED <<genVars, writeVars>>

NextPipeline == PipelineOnce \/ PipelineTwice
SpecPipeline == InitPure /\ [][NextPipeline]_vars

(***************************************************************************)
(* Inputs of the generate command                                          *)
(***************************************************************************)
MaxRequested == 2

\* words given with --steps
RequestedWords ==
  { <<"c", "l", "e", "a", "n", "-", "u", "p">>,
    <<"o", "r", "g", "a", "n", "i", "z", "e">>,
    <<"T", "y", "p", "e", "s">>,
    <<"a", "s", "s", "e", "t">>,
    <<"t", "y", "p", "e", "s">> }

FlagValues ==
  { [kind |-> "object", value |-> TRUE],
    [kind |-> "object", value |-> FALSE],
    [kind |-> "undefined", value |-> FALSE] }

FlagKeys == {ALL_STEPS[k].flagKey : k \in DOMAIN ALL_STEPS}

\* config.featureFlags
FeatureFlagChoices ==
  {fl \in [FlagKeys -> FlagValues] :
     /\ fl[generateTypes].kind = "object"
     /\ fl[generateComponent].kind = "object"}

\* the step whose executeStep throws, <<>> for none
FailingStepChoices == {<<>>, organizeFilenames, generateTypes}

InitGenerate ==
  /\ PureAtRest
  /\ PassAtRest
  /\ WriteAtRest
  /\ requestedSteps \in SeqsUpTo(RequestedWords, MaxRequested)
  /\ featureFlags \in FeatureFlagChoices
  /\ dryRun \in BOOLEAN
  /\ validConfig \in BOOLEAN
  /\ failingStep \in FailingStepChoices
  /\ gpc = "idle"
  /\ enabledSteps = <<>>
  /\ stepAt = 1
  /\ running = FALSE
  /\ completedSteps = 0
  /\ generatedFiles = 0
  /\ outcome = NoOutcome
  /\ executed = {}
  /\ formatted = FALSE
  /\ log = <<>>

NextGenerate ==
  \/ GenerateStart
  \/ StepStart
  \/ StepDryRun
  \/ StepExecute
  \/ StepThrows
  \/ FormatAndReturn

SpecGenerate == InitGenerate /\ [][NextGenerate]_vars

(***************************************************************************)
(* Properties                                                              *)
(***************************************************************************)
Range(f) == {f[i] : i \in DOMAIN f}

\* the separator-delimited segments of a stem under the configured separator
Segments(s) == Range(Split(s, separatorCharOf(inSep)))

\* C1: cleaning is idempotent: cleaning the cleaned stem again, with the same
\* folder names and separator, gives the cleaned stem
C1_CleanIdempotent == phase = "twice" => res2 = res1

\* C2: organizing is idempotent: a stem produced by organize is reproduced
\* unchanged by organize with the same pathParts and base name, so the second
\* pass has nothing to rename
C2_OrganizeIdempotent == phase = "twice" => NoChange(res2, res1)

\* C3: a pass never loses a file: every directory holds as many files as it
\* did when the pass began
C3_NoFileLost ==
  \A d \in Dirs :
    Cardinality({f \in files : f.dir = d}) = Cardinality({f \in files0 : f.dir = d})

\* C4: a rename keeps the file in its directory and gives it the new stem
\* followed by exactly the extension it had
C4_ExtensionKept ==
  [][\A f \in files : \A g \in files' :
       (g.id = f.id /\ (g.name # f.name \/ g.dir # f.dir)) =>
         /\ g.dir = f.dir
         /\ extname(g.name) = extname(f.name)
         /\ \E h \in handled' \ handled :
              /\ h.dir = f.dir
              /\ h.name = f.name
              /\ g.name = h.newStem \o extname(f.name)]_vars

C4_Witness ==
  \E g \in files : g.name # g.id[2] /\ extname(g.name) = <<".", "S">>

\* C5: when the computed stem equals the current stem, no rename is issued,
\* the file system is unchanged and no result is added
C5_NoOpNoRename ==
  [][\A h \in handled' \ handled :
       h.newStem = h.oldStem =>
         /\ renameCalls' = renameCalls
         /\ files' = files
         /\ \A i \in DOMAIN units :
              units'[i].processedFiles = units[i].processedFiles]_vars

C5_Witness ==
  /\ pc = "done"
  /\ renameCalls = 0
  /\ files = files0
  /\ \E h \in handled : h.newStem = h.oldStem

\* PathParts: the directory names between a root and a directory below it
PartsBelow(rootPath, dir) == SubSeq(dir, Len(normalize(rootPath)) + 1, Len(dir))

\* the directories the walk of a root reaches: every directory from the root
\* down to them can be read
WalkedDirs(rootPath) ==
  {d \in Dirs : /\ IsPrefix(normalize(rootPath), d)
                /\ \A k \in Len(normalize(rootPath))..Len(d) : Take(d, k) \notin unreadable}

\* the stem a file gets from its own root alone
StemAlone(kind, assetDir, dir, nameWithoutExt) ==
  IF kind = "clean"
  THEN removeFolderNamesFromFilename(nameWithoutExt,
         <<assetDir.name>> \o PartsBelow(assetDir.path, dir),
         config.conventions.separatorChar)
  ELSE addFolderStructureToFilename(nameWithoutExt, PartsBelow(assetDir.path, dir),
         assetDir.name, separatorCharOf(config.conventions.separatorChar))

SomeOtherRootFails(i) ==
  \E j \in DOMAIN enabledDirectories :
    j # i /\ normalize(enabledDirectories[j].path) \in unreadable

\* C6: when another enabled root cannot be read, every asset file of a
\* readable root is still processed, with the name its own root alone gives
\* it, and its results are returned
C6_Isolation ==
  pc = "done" =>
    \A i \in DOMAIN enabledDirectories :
      (SomeOtherRootFails(i) /\ normalize(enabledDirectories[i].path) \notin unreadable) =>
        /\ \A f \in files0 :
             (isAssetFile(f.name) /\ f.dir \in WalkedDirs(enabledDirectories[i].path)) =>
               \E h \in handled :
                 /\ h.unit = i
                 /\ h.dir = f.dir
                 /\ h.name = f.name
                 /\ h.newStem = StemAlone(passKind, enabledDirectories[i], f.dir,
                                          basename(f.name, extname(f.name)))
        /\ \A r \in Range(units[i].processedFiles) : r \in Range(result)

C6_Witness ==
  /\ pc = "done"
  /\ \E i \in DOMAIN enabledDirectories :
       /\ SomeOtherRootFails(i)
       /\ normalize(enabledDirectories[i].path) \notin unreadable
       /\ Len(units[i].processedFiles) >= 2
       /\ \A r \in Range(units[i].processedFiles) :
            \E g \in files : g.dir = r.directory /\ g.name = r.newName

\* C7: a root that failed during the clean pass is recorded, by name, in the
\* list of per-root failures of the finished pass
C7_FailureRecorded ==
  (pc = "done" /\ passKind = "clean") =>
    \A i \in DOMAIN enabledDirectories :
      normalize(enabledDirectories[i].path) \in unreadable =>
        \E k \in DOMAIN errors : errors[k].dir = enabledDirectories[i].name

\* C8: when every segment of the stem is a folder name, clean returns the
\* literal "unnamed"
C8_Fallback ==
  (phase = "once" /\ Segments(inStem) \subseteq Range(foldersToRemove)) => res1 = Unnamed

\* C9: matching ignores letter case: cleaning gives, up to letter case, what
\* it gives when stem and folder names are written in lower case
C9_CaseInsensitive ==
  phase = "once" =>
    toLowerCase(res1) =
      toLowerCase(removeFolderNamesFromFilename(toLowerCase(inStem),
                    [k \in DOMAIN foldersToRemove |-> toLowerCase(foldersToRemove[k])],
                    inSep))

\* C10: no segment of the cleaned stem is one of the folder names
C10_NoTokenLeft ==
  phase = "once" => Segments(res1) \cap Range(foldersToRemove) = {}

RECURSIVE IsSubseq(_, _)
IsSubseq(a, b) ==
  IF a = <<>> THEN TRUE
  ELSE IF b = <<>> THEN FALSE
  ELSE IF Head(a) = Head(b) THEN IsSubseq(Tail(a), Tail(b))
  ELSE IsSubseq(a, Tail(b))

\* the folder names that are strictly longer than every other one
StrictlyLongest(names) ==
  {names[k] : k \in {j \in DOMAIN names :
                       \A i \in DOMAIN names : i # j => Len(names[i]) < Len(names[j])}}

\* C11: clean removes folder names as whole units, longest first: the
\* segments it returns are segments of the stem, in their order, and the
\* result is what is left once the longest folder name has been stripped
C11_WholeUnitsLongestFirst ==
  phase = "once" =>
    /\ res1 = Unnamed
       \/ IsSubseq(Split(res1, separatorCharOf(inSep)), Split(inStem, separatorCharOf(inSep)))
    /\ \A long \in StrictlyLongest(foldersToRemove) :
         res1 = removeFolderNamesFromFilename(
                  RemoveUntilStable(inStem, long, separatorCharOf(inSep)),
                  foldersToRemove, inSep)

\* folder names a and ab on the stem ab-b: ab goes as a unit, b stays
C11_Witness ==
  /\ phase = "once"
  /\ inStem = <<"a", "b", "-", "b">>
  /\ inSep = <<>>
  /\ inBase = <<"a">>
  /\ inParts = << <<"a", "b">> >>
  /\ res1 = <<"b">>

\* the segments of every piece, in order
RECURSIVE SplitEach(_, _)
SplitEach(pieces, sep) ==
  IF pieces = <<>> THEN <<>>
  ELSE Split(Head(pieces), sep) \o SplitEach(Tail(pieces), sep)

C13_TokenScoping ==
  passKind = "clean" =>
    \A h \in handled :
      h.newStem = StemAlone("clean", enabledDirectories[h.unit], h.dir, h.oldStem)

\* every asset file found by the walk of root i has been handed to the
\* single-file call of unit i
AllWalkedHandled(i) ==
  \A f \in files0 :
    (isAssetFile(f.name) /\ f.dir \in WalkedDirs(enabledDirectories[i].path)) =>
      \E h \in handled : h.unit = i /\ h.dir = f.dir /\ h.name = f.name

\* C14: a failing rename leaves the file under its name, adds no result and
\* raises nothing to generate; the files left in the directory and the root
\* are still processed
C14_RenameFailureIsolated ==
  /\ [][\A x \in failed' \ failed :
          /\ files' = files
          /\ \A i \in DOMAIN units : units'[i].processedFiles = units[i].processedFiles
          /\ pc' = "processing"
          /\ errors' = errors]_vars
  /\ [](pc = "done" =>
          \A x \in failed :
            /\ AllWalkedHandled(x.unit)
            /\ \A r \in Range(result) :
                 ~(r.directory = x.dir /\ r.originalName = x.name))

\* a rename failed, the file is still there, and another file of the same
\* directory was renamed
C14_Witness ==
  /\ pc = "done"
  /\ \E x \in failed :
       /\ FileAt(files, x.dir, x.name) # {}
       /\ \E r \in Range(result) : r.directory = x.dir /\ r.originalName # x.name

\* the unreadable directories strictly below root i
FailingSubdirs(i) ==
  {d \in unreadable : /\ IsPrefix(normalize(enabledDirectories[i].path), d)
                      /\ Len(d) > Len(normalize(enabledDirectories[i].path))}

\* C15: when the readdir of a subdirectory fails, nothing of that subtree is
\* processed, every file and directory beside it is, and the walk returns
\* without an error
C15_ScanFailureIsolated ==
  pc = "done" =>
    \A i \in DOMAIN enabledDirectories :
      \A bad \in FailingSubdirs(i) :
        /\ \A h \in handled : h.unit = i => ~IsPrefix(bad, h.dir)
        /\ \A f \in files0 : IsPrefix(bad, f.dir) => f \in files
        /\ AllWalkedHandled(i)
        /\ units[i].st = "settled"
        /\ errors = <<>>

\* the subdirectory of a root cannot be read and holds a file; a file beside
\* the subdirectory has been renamed
C15_Witness ==
  /\ pc = "done"
  /\ \E i \in DOMAIN enabledDirectories :
       \E bad \in FailingSubdirs(i) :
         /\ \E f \in files : f.dir = bad
         /\ \E r \in Range(units[i].processedFiles) :
              r.directory = normalize(enabledDirectories[i].path)

\* C16: in a pass no file is renamed more than once: a file that is given a
\* new name still had the name it began the pass with
C16_RenamedAtMostOnce ==
  [][\A f \in files : \A g \in files' :
       (g.id = f.id /\ g.name # f.name) => f.name = f.id[2]]_vars

\* the pass found no enabled root: nothing was collected, walked or renamed
NothingDone ==
  /\ result = <<>>
  /\ errors = <<>>
  /\ units = <<>>
  /\ allFolderNames = {}
  /\ handled = {}
  /\ renameCalls = 0
  /\ files = files0

\* every enabled root failed: none could be read
EveryRootFailed ==
  /\ enabledDirectories # <<>>
  /\ \A i \in DOMAIN enabledDirectories :
       normalize(enabledDirectories[i].path) \in unreadable

\* C17: with no enabled root the pass returns the empty list, raises nothing
\* and touches nothing, and what it returns differs from what a pass returns
\* whose roots were processed and failed
C17_NothingToDo ==
  pc = "done" =>
    /\ enabledDirectories = <<>> => NothingDone
    /\ EveryRootFailed => <<result, errors>> # <<<<>>, <<>>>>

\* position of a step in ALL_STEPS
(***************************************************************************)
(* Writing one output file                                                 *)
(***************************************************************************)
InitWrite ==
  /\ PureAtRest
  /\ PassAtRest
  /\ GenAtRest
  /\ overwriteMode \in {"skip", "backup", "overwrite"}
  /\ outputFile \in {"none", "old"}
  /\ backupFile \in {"none", "older"}
  /\ copyFails \in BOOLEAN
  /\ writeFails \in BOOLEAN
  /\ writer \in {"writeTypeFile", "generateAssetComponent"}
  /\ wpc = "access"
  /\ shouldSkip = FALSE

NextWrite ==
  \/ HandleFileOverwriteAccess
  \/ HandleFileOverwriteCopy
  \/ WriteFile

SpecWrite == InitWrite /\ [][NextWrite]_vars

StepOrder(key) == CHOOSE k \in DOMAIN ALL_STEPS : ALL_STEPS[k].flagKey = key

\* the flag keys of the selected steps
SelectedKeys == {enabledSteps[k].flagKey : k \in DOMAIN enabledSteps}

\* C18: the steps start in the order clean, organize, types, component,
\* however they were selected, and a step starts only when every selected
\* step before it in that order has completed
C18_FixedStepOrder ==
  \A q \in DOMAIN log :
    log[q].ev = "start" =>
      /\ \A p \in 1..(q - 1) :
           log[p].ev = "start" => StepOrder(log[p].key) < StepOrder(log[q].key)
      /\ \A key \in SelectedKeys :
           StepOrder(key) < StepOrder(log[q].key) =>
             \E r \in 1..(q - 1) : log[r] = [ev |-> "end", key |-> key]

\* Types requested before clean-up: clean ran to its end, then types
C18_Witness ==
  /\ gpc = "returned"
  /\ requestedSteps = <<<<"T", "y", "p", "e", "s">>,
                        <<"c", "l", "e", "a", "n", "-", "u", "p">>>>
  /\ log = << [ev |-> "start", key |-> cleanupDuplicates],
              [ev |-> "end", key |-> cleanupDuplicates],
              [ev |-> "start", key |-> generateTypes],
              [ev |-> "end", key |-> generateTypes] >>

\* C19: a second run of clean then organize gives every file the stem the
\* first run gave it
C19_PrefixAppliedOnce == phase = "twice" => res2 = res1

\* the file system after the entries names of directory d, read when the
\* directory is entered, have been processed one after the other in one
\* fixed order
RECURSIVE AfterDirInOrder(_, _, _, _)
AfterDirInOrder(fs, names, d, assetDir) ==
  IF names = {} THEN fs
  ELSE LET originalFilename == CHOOSE n \in names : TRUE
           extension == extname(originalFilename)
           nameWithoutExt == basename(originalFilename, extension)
           newStem == NewStem(passKind, d, nameWithoutExt, assetDir)
           newFilename == NewFilename(newStem, extension)
       IN AfterDirInOrder(
            IF NoChange(newStem, nameWithoutExt)
               \/ ~RenamePossible(fs, d, originalFilename, newFilename)
            THEN fs
            ELSE Renamed(fs, d, originalFilename, newFilename),
            names \ {originalFilename}, d, assetDir)

\* the pairs of an enabled root and a directory its walk reaches
WalkedPairs ==
  {x \in (DOMAIN enabledDirectories) \X Dirs :
     x[2] \in WalkedDirs(enabledDirectories[x[1]].path)}

RECURSIVE AfterPairsInOrder(_, _)
AfterPairsInOrder(fs, pairs) ==
  IF pairs = {} THEN fs
  ELSE LET x == CHOOSE y \in pairs : TRUE
       IN AfterPairsInOrder(
            AfterDirInOrder(fs,
              {f.name : f \in {g \in files0 : g.dir = x[2] /\ isAssetFile(g.name)}},
              x[2], enabledDirectories[x[1]]),
            pairs \ {x})

NamesOf(fs) == {<<f.dir, f.name>> : f \in fs}

\* C20: the names a pass leaves on disk do not depend on the order of the
\* readdir entries: a pass in which no rename failed leaves the names that
\* the pass over the same tree in one fixed order leaves
C20_OrderIndependent ==
  (pc = "done" /\ failed = {}) =>
    NamesOf(files) = NamesOf(AfterPairsInOrder(files0, WalkedPairs))

\* the asset files of root i: those the walk of the root reaches
AssetFilesOf(fs, i) ==
  {f \in fs : isAssetFile(f.name) /\ f.dir \in WalkedDirs(enabledDirectories[i].path)}

StemOf(f) == basename(f.name, extname(f.name))

\* C21: organize keeps the asset names of a root distinct: when no two asset
\* files of the root had the same directory and stem before the pass and no
\* rename failed, no two have the same stem after it
C21_OrganizeKeepsDistinct ==
  (pc = "done" /\ passKind = "organize" /\ failed = {}) =>
    \A i \in DOMAIN enabledDirectories :
      (\A f, g \in AssetFilesOf(files0, i) :
         (f.dir = g.dir /\ StemOf(f) = StemOf(g)) => f = g) =>
        \A f, g \in AssetFilesOf(files, i) : StemOf(f) = StemOf(g) => f = g

C23_PassTerminates ==
  <>(pc = "done" /\ errors = <<>> /\ \A i \in DOMAIN units : units[i].st = "settled")

\* a finished pass in which a directory could not be read, a rename failed
\* and a root has the empty name
C23_Witness ==
  /\ pc = "done"
  /\ failed # {}
  /\ unreadable # {}
  /\ \E h \in handled : enabledDirectories[h.unit].name = <<>>

\* what the removal of the folder names leaves, before separators are
\* collapsed and trimmed
Stripped ==
  RemoveEach(inStem, sortedFolderNames(foldersToRemove), separatorCharOf(inSep))

\* C24: the stem clean returns is well formed: it is not empty and no segment
\* of it is empty (no separator at either end, no two in a row); it is
\* "unnamed" exactly when the removal left nothing but separators
C24_WellFormed ==
  phase = "once" =>
    /\ res1 # <<>>
    /\ <<>> \notin Segments(res1)
    /\ res1 = Unnamed <=> Segments(Stripped) = {<<>>}

\* the stem -a--b comes out as a-b
C24_Witness ==
  /\ phase = "once"
  /\ inStem = <<"-", "a", "-", "-", "b">>
  /\ inSep = <<>>
  /\ inBase = <<"A">>
  /\ inParts = <<>>
  /\ res1 = <<"a", "-", "b">>

\* an extension of the configured list, compared without regard to case
ListedIgnoringCase(filename) ==
  Drop(toLowerCase(extname(filename)), 1) \in
    {toLowerCase(x) : x \in config.fileGeneration.supportedExtensions}

\* C25: a file is handled as an asset exactly when its extension, without
\* the dot and whatever the letter case on either side, is in
\* supportedExtensions; the other files keep their names
C25_AssetClassification ==
  pc = "done" =>
    /\ \A i \in DOMAIN enabledDirectories :
         \A f \in files0 :
           f.dir \in WalkedDirs(enabledDirectories[i].path) =>
             (ListedIgnoringCase(f.name) <=>
                \E h \in handled : h.unit = i /\ h.dir = f.dir /\ h.name = f.name)
    /\ \A f \in files0 : ~ListedIgnoringCase(f.name) => f \in files

\* C26: a run of generate that is no dry run and in which nothing fails has
\* executed the type generation step, whatever the feature flags and the
\* requested steps are
C26_TypesAlwaysRun ==
  (gpc = "returned" /\ validConfig /\ ~dryRun /\ failingStep = <<>>) =>
    generateTypes \in executed

C29_BackupBeforeOverwrite ==
  [][(overwriteMode = "backup" /\ outputFile # "none" /\ outputFile' # outputFile) =>
       backupFile = outputFile]_vars

\* "." and "-" exchanged throughout a string
SwapChar(c) == IF c = "." THEN "-" ELSE IF c = "-" THEN "." ELSE c

SwapSep(s) == [i \in 1..Len(s) |-> SwapChar(s[i])]

\* C30: the separator and the tokens are literal text in clean: cleaning
\* with the separator "." gives what cleaning with "-" gives once "." and
\* "-" are exchanged throughout the stem, the tokens and the result
C30_SeparatorLiteral ==
  (phase = "once" /\ inSep = <<".">>) =>
    res1 = SwapSep(removeFolderNamesFromFilename(
                     SwapSep(inStem),
                     [k \in DOMAIN foldersToRemove |-> SwapSep(foldersToRemove[k])],
                     <<>>))

\* stem ab.a, token a, separator ".": only the exact ".a" at the end goes
C30_Witness ==
  /\ phase = "once"
  /\ inSep = <<".">>
  /\ inStem = <<"a", "b", ".", "a">>
  /\ inBase = <<"a">>
  /\ inParts = <<>>
  /\ res1 = <<"a", "b">>

====
